---- MODULE Spec2Model ----
(***************************************************************************)
(* systemd-cryptsetup-generator (src/cryptsetup/cryptsetup-generator.c).   *)
(* Strings are sequences of one-character strings, so that the scanning    *)
(* and splitting the generator does on its inputs is computed, not assumed.*)
(* An operator that needs an intermediate result more than once takes it   *)
(* as a parameter of a second operator, the way the C code keeps it in a   *)
(* local variable.                                                         *)
(***************************************************************************)
EXTENDS Integers, Sequences, FiniteSets, TLC

\* ------------------------------------------------------------------ bounds
\* number of kernel command line parameters handed to parse_proc_cmdline_item
MaxParams == 3
\* number of lines read from /etc/crypttab
MaxLines == 2
\* number of direct calls of create_disk in SpecCreateDisk
MaxDirect == 1

\* ------------------------------------------------------- program constants
EINVAL == 22
\* the conversions of sscanf(l, "%ms %ms %ms %ms", ...)
CrypttabFields == 4

\* a null pointer (never equal to a string of characters)
NULL == <<"NULL">>

\* ------------------------------------------------------- character classes
DIGITS == {"0","1","2","3","4","5","6","7","8","9"}
LOWERCASE_LETTERS == {"a","b","c","d","e","f","g","h","i","j","k","l","m","n","o","p","q","r","s","t","u","v","w","x","y","z"}
UPPERCASE_LETTERS == {"A","B","C","D","E","F","G","H","I","J","K","L","M","N","O","P","Q","R","S","T","U","V","W","X","Y","Z"}
LETTERS == LOWERCASE_LETTERS \cup UPPERCASE_LETTERS
ALPHANUMERICAL == LETTERS \cup DIGITS
HexClass == DIGITS \cup {"a","b","c","d","e","f","A","B","C","D","E","F"}
WHITESPACE == {" ", "\t", "\n", "\r"}

\* ---------------------------------------------------------- string helpers
Min(a, b) == IF a < b THEN a ELSE b

\* startswith(): the rest of s after prefix p, or NULL
startswith(s, p) ==
    IF Len(s) >= Len(p) /\ SubSeq(s, 1, Len(p)) = p
    THEN SubSeq(s, Len(p) + 1, Len(s))
    ELSE NULL

\* path_startswith() on the normalised absolute paths used here
path_startswith(s, p) == startswith(s, p)

\* strspn(): length of the longest prefix made of characters of accept
strspn(s, accept) ==
    CHOOSE n \in 0..Len(s) :
        /\ \A i \in 1..n : s[i] \in accept
        /\ (n = Len(s) \/ s[n + 1] \notin accept)

\* strcspn(): length of the longest prefix free of characters of reject
strcspn(s, reject) ==
    CHOOSE n \in 0..Len(s) :
        /\ \A i \in 1..n : s[i] \notin reject
        /\ (n = Len(s) \/ s[n + 1] \in reject)

\* strrchr(): index of the last c in s, 0 when there is none
strrchr(s, c) ==
    IF \E i \in 1..Len(s) : s[i] = c
    THEN CHOOSE i \in 1..Len(s) : s[i] = c /\ \A j \in (i + 1)..Len(s) : s[j] # c
    ELSE 0

\* the string without its trailing whitespace
rstrip(t) ==
    IF \A i \in 1..Len(t) : t[i] \in WHITESPACE THEN <<>>
    ELSE SubSeq(t, 1, CHOOSE n \in 1..Len(t) :
                        /\ t[n] \notin WHITESPACE
                        /\ \A j \in (n + 1)..Len(t) : t[j] \in WHITESPACE)

\* strstrip(): drop leading and trailing whitespace
strstrip(s) == rstrip(SubSeq(s, strspn(s, WHITESPACE) + 1, Len(s)))

\* the words of s separated by characters of seps (empty words dropped)
RECURSIVE Words(_, _)
RECURSIVE words_from(_, _)
RECURSIVE words_cut(_, _, _)
words_cut(t, n, seps) == <<SubSeq(t, 1, n)>> \o Words(SubSeq(t, n + 1, Len(t)), seps)
words_from(t, seps) == IF t = <<>> THEN <<>> ELSE words_cut(t, strcspn(t, seps), seps)
Words(s, seps) == words_from(SubSeq(s, strspn(s, seps) + 1, Len(s)), seps)

\* strv_join()
RECURSIVE strv_join(_, _)
strv_join(l, sep) ==
    IF l = <<>> THEN <<>>
    ELSE IF Len(l) = 1 THEN l[1]
    ELSE l[1] \o sep \o strv_join(Tail(l), sep)

\* specifier_escape(): double every '%'
RECURSIVE specifier_escape(_)
specifier_escape(s) ==
    IF s = <<>> THEN <<>>
    ELSE (IF s[1] = "%" THEN <<"%","%">> ELSE <<s[1]>>) \o specifier_escape(Tail(s))

\* unit_name_escape(): '/' becomes '-', '-' becomes \x2d
RECURSIVE unit_name_escape(_)
unit_name_escape(s) ==
    IF s = <<>> THEN <<>>
    ELSE (IF s[1] = "/" THEN <<"-">> ELSE IF s[1] = "-" THEN <<"\\","x","2","d">> ELSE <<s[1]>>)
         \o unit_name_escape(Tail(s))

\* cescape(): printable characters stay, a backslash is doubled
RECURSIVE cescape(_)
cescape(s) ==
    IF s = <<>> THEN <<>>
    ELSE (IF s[1] = "\\" THEN <<"\\","\\">> ELSE <<s[1]>>) \o cescape(Tail(s))

\* unit_name_from_path(): escape the path without its leading '/', add suffix
unit_name_path(q, suffix) == (IF q = <<>> THEN <<"-">> ELSE unit_name_escape(q)) \o suffix
unit_name_from_path(p, suffix) ==
    unit_name_path(SubSeq(p, strspn(p, {"/"}) + 1, Len(p)), suffix)

\* id128_is_valid(): 32 hex digits, or 36 characters in 8-4-4-4-12 form
id128_is_valid(s) ==
    \/ Len(s) = 32 /\ \A i \in 1..Len(s) : s[i] \in HexClass
    \/ /\ Len(s) = 36
       /\ \A i \in 1..Len(s) :
            IF i \in {9, 14, 19, 24} THEN s[i] = "-" ELSE s[i] \in HexClass

\* fstab_node_to_udev_node(): UUID=<uuid> becomes the /dev/disk/by-uuid symlink
udev_node_of(p, uuid) == IF uuid # NULL THEN <<"/","d","e","v","/","d","i","s","k","/","b","y","-","u","u","i","d","/">> \o uuid ELSE p
fstab_node_to_udev_node(p) == udev_node_of(p, startswith(p, <<"U","U","I","D","=">>))

\* parse_boolean(): 1, 0 or -EINVAL
parse_boolean(v) ==
    IF v \in {<<"1">>, <<"y","e","s">>, <<"y">>, <<"t","r","u","e">>, <<"t">>, <<"o","n">>} THEN 1
    ELSE IF v \in {<<"0">>, <<"n","o">>, <<"n">>, <<"f","a","l","s","e">>, <<"f">>, <<"o","f","f">>} THEN 0
    ELSE -EINVAL

\* sscanf(value, "%m[0-9a-fA-F-]=%ms", &uuid, &uuid_value): the number of
\* conversions made and their results
scan_value(uuid, w) ==
    IF w = <<>> THEN [r |-> 1, uuid |-> uuid, uuid_value |-> NULL]
    ELSE [r |-> 2, uuid |-> uuid, uuid_value |-> w[1]]
scan_uuid(value, n) ==
    IF n = 0 THEN [r |-> 0, uuid |-> NULL, uuid_value |-> NULL]
    ELSE IF n = Len(value) \/ value[n + 1] # "="
    THEN [r |-> 1, uuid |-> SubSeq(value, 1, n), uuid_value |-> NULL]
    ELSE scan_value(SubSeq(value, 1, n),
                    Words(SubSeq(value, n + 2, Len(value)), WHITESPACE))
sscanf_uuid_value(value) == scan_uuid(value, strspn(value, HexClass \cup {"-"}))

\* sscanf(l, "%ms %ms %ms %ms", &name, &device, &keyfile, &options): the
\* number of conversions made and the four results
scan_field(w, i) == IF i <= Len(w) THEN w[i] ELSE NULL
scan_fields(w) ==
    [k |-> Min(Len(w), CrypttabFields),
     name |-> scan_field(w, 1), device |-> scan_field(w, 2),
     keyfile |-> scan_field(w, 3), options |-> scan_field(w, 4)]
sscanf_crypttab(l) == scan_fields(Words(l, WHITESPACE))

\* ------------------------------------------------------------ fstab-util
\* fstab_filter_options(opts, names, &namefound, &value, &filtered): the last
\* word of opts that is one of names, alone or followed by '=' and a value
option_follows(x) == x # NULL /\ (x = <<>> \/ x[1] = "=")
option_value(x) == IF x = <<>> THEN NULL ELSE Tail(x)
option_found(acc, n, word) ==
    [acc EXCEPT !.namefound = n, !.value = option_value(startswith(word, n))]
RECURSIVE filter_words(_, _, _)
RECURSIVE filter_word(_, _, _, _)
filter_word(w, names, acc, hit) ==
    IF hit = {}
    THEN filter_words(Tail(w), names, [acc EXCEPT !.filtered = Append(@, w[1])])
    ELSE filter_words(Tail(w), names, option_found(acc, CHOOSE n \in hit : TRUE, w[1]))
filter_words(w, names, acc) ==
    IF w = <<>> THEN acc
    ELSE filter_word(w, names, acc, {n \in names : option_follows(startswith(w[1], n))})
filter_answer(res) ==
    [r |-> IF res.namefound # NULL THEN 1 ELSE 0,
     namefound |-> res.namefound,
     value |-> res.value,
     filtered |-> strv_join(res.filtered, <<",">>)]
fstab_filter_options(opts, names) ==
    filter_answer(IF opts = NULL
                  THEN [namefound |-> NULL, value |-> NULL, filtered |-> <<>>]
                  ELSE filter_words(Words(opts, {","}), names,
                                    [namefound |-> NULL, value |-> NULL, filtered |-> <<>>]))

\* fstab_test_option(opts, names)
fstab_test_option(opts, names) == fstab_filter_options(opts, names).r = 1

\* fstab_test_yes_no_option(opts, "yes\0no\0"): whether yes is the last of the two
fstab_test_yes_no_option(opts, yes, no) ==
    fstab_filter_options(opts, {yes, no}).namefound = yes

\* prefix_root() and path_join(NULL, path, rest): path "/" rest
path_join(path, rest) ==
    IF rest = NULL THEN path
    ELSE path
         \o (IF path # <<>> /\ path[Len(path)] = "/" THEN <<>> ELSE <<"/">>)
         \o SubSeq(rest, strspn(rest, {"/"}) + 1, Len(rest))

\* log_error(fmt, ...) is log_full_errno(LOG_ERR, 0, fmt, ...), whose value
\* is -abs(0): a caller that does `return log_error(...)` returns 0
log_error == 0

\* ------------------------------------------------------------ the program
VARIABLES
    pc,                  \* where main() is: "cmdline", "crypttab", "cmdline_devices", "finish"
    arg_enabled,
    arg_read_crypttab,
    arg_whitelist,
    arg_disks,           \* Hashmap uuid -> crypto_device
    arg_default_options,
    arg_default_keyfile,
    key, value,          \* arguments of the running parse_proc_cmdline_item call
    nparams,             \* parameters proc_cmdline_parse has handed over
    line,                \* the buffer fgets filled last
    crypttab_line,
    visited,             \* entries HASHMAP_FOREACH has returned
    r,                   \* main()'s r
    calls,               \* the create_disk calls made, with what each wrote
    declared             \* a luks.uuid= or luks.name= parameter was accepted

vars == <<pc, arg_enabled, arg_read_crypttab, arg_whitelist, arg_disks,
          arg_default_options, arg_default_keyfile, key, value, nparams,
          line, crypttab_line, visited, r, calls, declared>>

\* ------------------------------------------------------------ create_disk
\* one file written under arg_dest
Artifact(kind, unit, name, what, password, options, tags) ==
    [kind |-> kind, unit |-> unit, name |-> name, what |-> what,
     password |-> password, options |-> options, tags |-> tags]

\* generate_dev_mount(name, dev, type_prefix, readonly, &unit, &mount)
dev_mount_at(where, u, dev, readonly) ==
    [unit |-> u, mount |-> where,
     file |-> Artifact("mount", u, where, fstab_node_to_udev_node(dev), NULL, NULL,
                       {<<"Mount", IF readonly THEN "Options=ro" ELSE "Options=rw">>})]
dev_mount_where(where, dev, readonly) ==
    dev_mount_at(where, unit_name_from_path(where, <<".","m","o","u","n","t">>), dev, readonly)
generate_dev_mount(name, dev, type_prefix, readonly) ==
    dev_mount_where(<<"/","r","u","n","/","s","y","s","t","e","m","d","/","c","r","y","p","t","s","e","t","u","p","/">> \o type_prefix \o <<"-">> \o cescape(name),
                    dev, readonly)

\* print_dependencies(f, device_path): the directives written for a key or header path
dependencies_of(who, device_path, udev_node) ==
    IF device_path \in {<<"-">>, <<"n","o","n","e">>} THEN {}
    ELSE IF device_path \in {<<"/","d","e","v","/","u","r","a","n","d","o","m">>, <<"/","d","e","v","/","r","a","n","d","o","m">>, <<"/","d","e","v","/","h","w","_","r","a","n","d","o","m">>}
    THEN {<<who, "After=systemd-random-seed.service">>}
    ELSE IF udev_node = <<"/","d","e","v","/","n","u","l","l">> THEN {}
    ELSE IF path_startswith(udev_node, <<"/","d","e","v","/">>) # NULL
    THEN {<<who, "After=device">>, <<who, "Requires=device">>}
    ELSE {<<who, "RequiresMountsFor=path">>}
print_dependencies(who, device_path) ==
    dependencies_of(who, device_path, fstab_node_to_udev_node(device_path))

\* the options create_disk tests (lines 165-171)
disk_header(hdrdev, h) ==
    [detached_header |-> h.r, header_path |-> h.value,
     filtered_header |-> IF hdrdev # NULL THEN h.filtered ELSE NULL]
disk_flags(hdrdev, options) ==
    [noauto |-> fstab_test_yes_no_option(options, <<"n","o","a","u","t","o">>, <<"a","u","t","o">>),
     nofail |-> fstab_test_yes_no_option(options, <<"n","o","f","a","i","l">>, <<"f","a","i","l">>),
     tmp |-> fstab_test_option(options, {<<"t","m","p">>}),
     swap |-> fstab_test_option(options, {<<"s","w","a","p">>}),
     netdev |-> fstab_test_option(options, {<<"_","n","e","t","d","e","v">>}),
     header |-> disk_header(hdrdev, fstab_filter_options(options, {<<"h","e","a","d","e","r">>}))]

\* disk_rejected without the key device test of line 208
disk_rejected_no_keydev_test(keydev, hdrdev, password, fl) ==
    IF fl.tmp /\ fl.swap THEN log_error
    ELSE IF hdrdev # NULL /\ fl.header.detached_header = 0 THEN log_error
    ELSE 1

\* disk_rejected with -EINVAL returned for tmp together with swap
disk_rejected_tmp_swap_fails(keydev, hdrdev, password, fl) ==
    IF fl.tmp /\ fl.swap THEN -EINVAL
    ELSE IF keydev # NULL /\ password = NULL THEN -EINVAL
    ELSE IF hdrdev # NULL /\ fl.header.detached_header = 0 THEN log_error
    ELSE 1

\* disk_rejected with -EINVAL returned for a header device without header=
disk_rejected_hdrdev_fails(keydev, hdrdev, password, fl) ==
    IF fl.tmp /\ fl.swap THEN log_error
    ELSE IF keydev # NULL /\ password = NULL THEN -EINVAL
    ELSE IF hdrdev # NULL /\ fl.header.detached_header = 0 THEN -EINVAL
    ELSE 1

\* disk_rejected with -EINVAL returned by every one of the three tests
disk_rejected_all_fail(keydev, hdrdev, password, fl) ==
    IF fl.tmp /\ fl.swap THEN -EINVAL
    ELSE IF keydev # NULL /\ password = NULL THEN -EINVAL
    ELSE IF hdrdev # NULL /\ fl.header.detached_header = 0 THEN -EINVAL
    ELSE 1

\* the early returns of create_disk before anything is written (lines 175-214):
\* the value returned, or 1 when the unit is to be written
disk_rejected(keydev, hdrdev, password, fl) ==
    IF fl.tmp /\ fl.swap THEN log_error
    ELSE IF keydev # NULL /\ password = NULL THEN -EINVAL
    ELSE IF hdrdev # NULL /\ fl.header.detached_header = 0 THEN log_error
    ELSE 1

\* device_timeout_dropin as "unless noauto and not nofail"
device_timeout_dropin_unless(noauto, nofail) == ~(noauto /\ ~nofail)

\* whether the JobTimeoutSec=0 drop-in of dev-mapper-<name>.device is written (line 363)
device_timeout_dropin(noauto, nofail) == ~noauto /\ ~nofail

\* whether the unit is linked into the device's and the target's directories (line 346)
linked_into_targets(noauto) == ~noauto

\* password_escaped once the key device's mount point is known (lines 202-242)
exec_password(keydev, password, keydev_mount) ==
    IF password = NULL THEN NULL
    ELSE IF keydev # NULL THEN path_join(keydev_mount, specifier_escape(password))
    ELSE specifier_escape(password)

\* options once the header device's mount point is known (lines 256-267)
exec_options(hdrdev, options, h, hdrdev_mount) ==
    IF hdrdev # NULL
    THEN h.filtered_header
         \o (IF h.filtered_header # <<>> THEN <<",","h","e","a","d","e","r","=">> ELSE <<"h","e","a","d","e","r","=">>)
         \o path_join(hdrdev_mount, h.header_path)
    ELSE options

\* generator_write_timeouts(arg_dest, device, name, options, &filtered)
generator_write_timeouts(options) ==
    fstab_filter_options(options, {<<"c","o","m","m","e","n","t","=","s","y","s","t","e","m","d",".","d","e","v","i","c","e","-","t","i","m","e","o","u","t">>,
                                   <<"x","-","s","y","s","t","e","m","d",".","d","e","v","i","c","e","-","t","i","m","e","o","u","t">>})

\* the directives and ExecStartPost= lines of the unit (lines 220-340)
service_tags(keydev, hdrdev, password, fl, isdev) ==
    {<<"Unit", IF fl.netdev THEN "After=remote-fs-pre.target"
               ELSE "After=cryptsetup-pre.target">>}
    \cup (IF keydev # NULL THEN {<<"Unit", "Requires=keydev.mount">>} ELSE {})
    \cup (IF hdrdev # NULL THEN {<<"Unit", "Requires=hdrdev.mount">>} ELSE {})
    \cup (IF ~fl.nofail
          THEN {<<"Unit", IF fl.netdev THEN "Before=remote-cryptsetup.target"
                          ELSE "Before=cryptsetup.target">>}
          ELSE {})
    \cup (IF password # NULL THEN print_dependencies("password", password) ELSE {})
    \cup (IF fl.header.detached_header > 0 /\ hdrdev = NULL /\ fl.header.header_path # NULL
          THEN print_dependencies("header", fl.header.header_path) ELSE {})
    \cup (IF isdev THEN {<<"Unit", "BindsTo=device">>}
          ELSE {<<"Unit", "RequiresMountsFor=device">>})
    \cup (IF isdev /\ fl.swap THEN {<<"Unit", "Before=dev-mapper-%i.swap">>} ELSE {})
    \cup (IF fl.tmp THEN {<<"Service", "ExecStartPost=mke2fs">>} ELSE {})
    \cup (IF fl.swap THEN {<<"Service", "ExecStartPost=mkswap">>} ELSE {})
    \cup (IF keydev # NULL THEN {<<"Service", "ExecStartPost=umount">>} ELSE {})

\* the symlinks and the drop-in written after the unit (lines 346-369)
disk_links(n, d, target, dmname, fl) ==
    (IF linked_into_targets(fl.noauto)
     THEN {Artifact("symlink", n, d, d, NULL, NULL, {<<"dir", "wants">>}),
           Artifact("symlink", n, target, target, NULL, NULL,
                    {<<"dir", IF fl.nofail THEN "wants" ELSE "requires">>})}
     ELSE {})
    \cup {Artifact("symlink", n, dmname, dmname, NULL, NULL, {<<"dir", "requires">>})}
    \cup (IF device_timeout_dropin(fl.noauto, fl.nofail)
          THEN {Artifact("dropin", dmname, <<"d","e","v","i","c","e","-","t","i","m","e","o","u","t">>, <<"J","o","b","T","i","m","e","o","u","t","S","e","c","=","0">>,
                         NULL, NULL, {})}
          ELSE {})

\* the files create_disk writes once the device is accepted (lines 216-369)
disk_files_tm(name, n, e, u, d, keydev, hdrdev, password, fl, km, hm, tm) ==
    {Artifact("service", n, specifier_escape(name), specifier_escape(u),
              exec_password(keydev, password, km.mount), specifier_escape(tm.filtered),
              service_tags(keydev, hdrdev, password, fl, path_startswith(u, <<"/","d","e","v","/">>) # NULL))}
    \cup (IF keydev # NULL THEN {km.file} ELSE {})
    \cup (IF hdrdev # NULL THEN {hm.file} ELSE {})
    \cup (IF tm.r > 0
          THEN {Artifact("dropin", d, <<"d","e","v","i","c","e","-","t","i","m","e","o","u","t">>, tm.value, NULL, NULL, {})}
          ELSE {})
    \cup disk_links(n, d, IF fl.netdev THEN <<"r","e","m","o","t","e","-","c","r","y","p","t","s","e","t","u","p",".","t","a","r","g","e","t">>
                          ELSE <<"c","r","y","p","t","s","e","t","u","p",".","t","a","r","g","e","t">>,
                    <<"d","e","v","-","m","a","p","p","e","r","-">> \o e \o <<".","d","e","v","i","c","e">>, fl)
disk_files_named(name, e, u, keydev, hdrdev, password, options, fl, km, hm) ==
    disk_files_tm(name, <<"s","y","s","t","e","m","d","-","c","r","y","p","t","s","e","t","u","p","@">> \o e \o <<".","s","e","r","v","i","c","e">>, e, u,
                  unit_name_from_path(u, <<".","d","e","v","i","c","e">>), keydev, hdrdev, password, fl, km, hm,
                  generator_write_timeouts(exec_options(hdrdev, options, fl.header, hm.mount)))
disk_files(name, device, keydev, hdrdev, password, options, fl) ==
    disk_files_named(name, unit_name_escape(name), fstab_node_to_udev_node(device),
                     keydev, hdrdev, password, options, fl,
                     generate_dev_mount(name, keydev, <<"k","e","y","d","e","v">>, TRUE),
                     generate_dev_mount(name, hdrdev, <<"h","d","r","d","e","v">>, FALSE))

\* create_disk(name, device, keydev, hdrdev, password, options): its return
\* value and the files it wrote
create_disk_rej(name, device, keydev, hdrdev, password, options, fl, rej) ==
    IF rej <= 0
    THEN [r |-> rej, emitted |-> {}]
    ELSE [r |-> 0,
          emitted |-> disk_files(name, device, keydev, hdrdev, password, options, fl)]
create_disk_fl(name, device, keydev, hdrdev, password, options, fl) ==
    create_disk_rej(name, device, keydev, hdrdev, password, options, fl,
                    disk_rejected(keydev, hdrdev, password, fl))
create_disk(name, device, keydev, hdrdev, password, options) ==
    create_disk_fl(name, device, keydev, hdrdev, password, options,
                   disk_flags(hdrdev, options))

\* the record of one create_disk call
CallOf(src, duuid, lineno, name, device, keydev, hdrdev, password, options, cd) ==
    [src |-> src, d |-> duuid, crypttab_line |-> lineno,
     name |-> name, device |-> device, keydev |-> keydev, hdrdev |-> hdrdev,
     password |-> password, options |-> options,
     r |-> cd.r, emitted |-> cd.emitted]
Call(src, duuid, lineno, name, device, keydev, hdrdev, password, options) ==
    CallOf(src, duuid, lineno, name, device, keydev, hdrdev, password, options,
           create_disk(name, device, keydev, hdrdev, password, options))

\* ---------------------------------------------------- the device registry
\* new0(struct crypto_device, 1) with uuid set (lines 391-398)
new_crypto_device(uuid) ==
    [uuid |-> uuid, keyfile |-> NULL, keydev |-> NULL, hdrdev |-> NULL,
     datadev |-> NULL, name |-> NULL, options |-> NULL, create |-> FALSE]

\* get_crypto_device(uuid): the registry with uuid's entry made if it was absent
get_crypto_device(disks, uuid) ==
    IF uuid \in DOMAIN disks THEN disks
    ELSE [u \in DOMAIN disks \cup {uuid} |->
            IF u = uuid THEN new_crypto_device(uuid) ELSE disks[u]]

\* hashmap_get(arg_disks, uuid): the key of the entry found, or NULL
hashmap_get(disks, uuid) == IF uuid \in DOMAIN disks THEN uuid ELSE NULL

\* the globals parse_proc_cmdline_item may write
Globals ==
    [enabled |-> arg_enabled, read_crypttab |-> arg_read_crypttab,
     whitelist |-> arg_whitelist, disks |-> arg_disks,
     default_options |-> arg_default_options,
     default_keyfile |-> arg_default_keyfile]

\* the uuid of a luks.key=, luks.hdr=, luks.data= value: the characters of
\* accept in front of '=', and what follows it (lines 468-475, 513-519, 544-550)
uuid_cut(v, n) ==
    IF n < Len(v) /\ v[n + 1] = "="
    THEN [uuid |-> SubSeq(v, 1, n), rest |-> SubSeq(v, n + 2, Len(v))]
    ELSE [uuid |-> NULL, rest |-> NULL]
uuid_prefix(v, accept) == uuid_cut(v, strspn(v, accept))

\* uuid_accepted without the id128_is_valid() test
uuid_accepted_always(uuid) == TRUE

\* whether the uuid in front of '=' is taken (lines 479, 523, 554)
uuid_accepted(uuid) == id128_is_valid(uuid)

\* "luks" and "luks.crypttab" (lines 417-431)
switch_set(g, field, b) == IF b < 0 THEN g ELSE [g EXCEPT ![field] = (b = 1)]
parse_switch(g, field, v) ==
    switch_set(g, field, IF v = NULL THEN 1 ELSE parse_boolean(v))

\* "luks.uuid" (lines 433-442)
declare_uuid(g, uuid) ==
    [g EXCEPT !.disks = [get_crypto_device(g.disks, uuid) EXCEPT ![uuid].create = TRUE],
              !.whitelist = TRUE]
uuid_of_value(v, x) == IF x # NULL THEN x ELSE v
parse_luks_uuid(g, v) ==
    IF v = NULL THEN g
    ELSE declare_uuid(g, uuid_of_value(v, startswith(v, <<"l","u","k","s","-">>)))

\* "luks.options" (lines 444-457)
options_set(g, v, s) ==
    IF s.r = 2
    THEN [g EXCEPT !.disks =
             [get_crypto_device(g.disks, s.uuid) EXCEPT ![s.uuid].options = s.uuid_value]]
    ELSE [g EXCEPT !.default_options = v]
parse_luks_options(g, v) ==
    IF v = NULL THEN g ELSE options_set(g, v, sscanf_uuid_value(v))

\* "luks.key" (lines 459-505)
key_store(g, uuid, keyspec, c) ==
    [g EXCEPT !.disks =
        [get_crypto_device(g.disks, uuid) EXCEPT
            ![uuid].keyfile = IF c > 0 THEN SubSeq(keyspec, 1, c - 1) ELSE keyspec,
            ![uuid].keydev = IF c > 0 THEN SubSeq(keyspec, c + 1, Len(keyspec)) ELSE NULL]]
key_set(g, v, p) ==
    IF p.uuid = NULL THEN [g EXCEPT !.default_keyfile = v]
    ELSE IF ~uuid_accepted(p.uuid) THEN g
    ELSE key_store(g, p.uuid, p.rest, strrchr(p.rest, ":"))
parse_luks_key(g, v) ==
    IF v = NULL THEN g ELSE key_set(g, v, uuid_prefix(v, LETTERS \cup DIGITS \cup {"-"}))

\* "luks.hdr" and "luks.data" (lines 506-567)
dev_set(g, field, p) ==
    IF p.uuid = NULL THEN g
    ELSE IF ~uuid_accepted(p.uuid) THEN g
    ELSE [g EXCEPT !.disks =
             [get_crypto_device(g.disks, p.uuid) EXCEPT
                 ![p.uuid][field] = fstab_node_to_udev_node(p.rest)]]
parse_luks_dev(g, field, v) ==
    IF v = NULL THEN g ELSE dev_set(g, field, uuid_prefix(v, ALPHANUMERICAL \cup {"-"}))

\* "luks.name" (lines 568-584)
name_set(g, s) ==
    IF s.r = 2
    THEN [g EXCEPT !.disks =
             [get_crypto_device(g.disks, s.uuid) EXCEPT
                 ![s.uuid].create = TRUE, ![s.uuid].name = s.uuid_value],
                   !.whitelist = TRUE]
    ELSE g
parse_luks_name(g, v) ==
    IF v = NULL THEN g ELSE name_set(g, sscanf_uuid_value(v))

\* parse_proc_cmdline_item(key, value, data): the globals after the call
parse_proc_cmdline_item(g, k, v) ==
    IF k = <<"l","u","k","s">> THEN parse_switch(g, "enabled", v)
    ELSE IF k = <<"l","u","k","s",".","c","r","y","p","t","t","a","b">> THEN parse_switch(g, "read_crypttab", v)
    ELSE IF k = <<"l","u","k","s",".","u","u","i","d">> THEN parse_luks_uuid(g, v)
    ELSE IF k = <<"l","u","k","s",".","o","p","t","i","o","n","s">> THEN parse_luks_options(g, v)
    ELSE IF k = <<"l","u","k","s",".","k","e","y">> THEN parse_luks_key(g, v)
    ELSE IF k = <<"l","u","k","s",".","h","d","r">> THEN parse_luks_dev(g, "hdrdev", v)
    ELSE IF k = <<"l","u","k","s",".","d","a","t","a">> THEN parse_luks_dev(g, "datadev", v)
    ELSE IF k = <<"l","u","k","s",".","n","a","m","e">> THEN parse_luks_name(g, v)
    ELSE g

\* ------------------------------------------------------------------ inputs
U1 == <<"1","2","3","4","a","b","c","d","1","2","3","4","a","b","c","d","1","2","3","4","a","b","c","d","1","2","3","4","a","b","c","d">>
U2 == <<"9","9","9","9","f","f","f","f","-","0","0","0","0","-","4","0","0","0","-","8","0","0","0","-","9","9","9","9","f","f","f","f","0","0","0","0">>

\* the kernel command line parameters a run may see, as (key, value)
CmdlineItems ==
    { <<<<"l","u","k","s",".","u","u","i","d">>, U1>>,
      <<<<"l","u","k","s",".","u","u","i","d">>, <<"l","u","k","s","-">> \o U2>>,
      <<<<"l","u","k","s",".","u","u","i","d">>, NULL>>,
      <<<<"l","u","k","s",".","n","a","m","e">>, U2 \o <<"=","d","a","t","a">>>>,
      <<<<"l","u","k","s",".","n","a","m","e">>, <<"b","o","g","u","s">>>>,
      <<<<"l","u","k","s",".","o","p","t","i","o","n","s">>, U1 \o <<"=","t","m","p",",","s","w","a","p">>>>,
      <<<<"l","u","k","s",".","o","p","t","i","o","n","s">>, U1 \o <<"=","h","e","a","d","e","r","=","/","h",",","n","o","a","u","t","o">>>>,
      <<<<"l","u","k","s",".","o","p","t","i","o","n","s">>, <<"n","o","f","a","i","l">>>>,
      <<<<"l","u","k","s",".","k","e","y">>, U1 \o <<"=","/","k",":","/","d","e","v","/","s","d","c","1">>>>,
      <<<<"l","u","k","s",".","k","e","y">>, <<"x","y","z","=","/","k">>>>,
      <<<<"l","u","k","s",".","k","e","y">>, <<"/","d","k">>>>,
      <<<<"l","u","k","s",".","h","d","r">>, U1 \o <<"=","/","d","e","v","/","s","d","d","1">>>>,
      <<<<"l","u","k","s",".","h","d","r">>, <<"a","b","c","=","/","d","e","v","/","s","d","d","1">>>>,
      <<<<"l","u","k","s",".","d","a","t","a">>, U2 \o <<"=","/","d","e","v","/","s","d","e","1">>>>,
      <<<<"l","u","k","s",".","d","a","t","a">>, <<"x","y","z","=","/","d","e","v","/","s","d","e","1">>>>,
      <<<<"l","u","k","s">>, <<"0">>>>,
      <<<<"l","u","k","s",".","c","r","y","p","t","t","a","b">>, <<"n","o">>>> }

\* the lines /etc/crypttab may hold
CrypttabLines ==
    { <<"v","o","l"," ","/","d","e","v","/","s","d","b","1"," ","/","k","\n">>,
      <<"v","o","l"," ","U","U","I","D","=">> \o U1 \o <<" ","-"," ","t","m","p",",","s","w","a","p","\n">>,
      <<"l","u","k","s","-">> \o U2 \o <<" ","/","d","e","v","/","s","d","b","2","\n">>,
      <<" "," ","s","w","a","p","\t","/","d","e","v","/","d","i","s","k","/","b","y","-","u","u","i","d","/">> \o U1 \o <<" ","/","d","e","v","/","u","r","a","n","d","o","m"," ","n","o","a","u","t","o",",","n","o","f","a","i","l","\n">>,
      <<"v","o","l","2"," ","/","s","r","v","/","i","m","g"," ","n","o","n","e"," ","n","o","f","a","i","l"," ","e","x","t","r","a","\n">>,
      <<"v","o","l","3","\n">>,
      <<"#"," ","v","o","l","4"," ","/","d","e","v","/","s","d","b","4","\n">>,
      <<"\n">> }

\* ----------------------------------------------------------------- actions
Init ==
    /\ pc = "cmdline"
    /\ arg_enabled = TRUE
    /\ arg_read_crypttab = TRUE
    /\ arg_whitelist = FALSE
    /\ arg_disks = [u \in {} |-> NULL]
    /\ arg_default_options = NULL
    /\ arg_default_keyfile = NULL
    /\ key = NULL
    /\ value = NULL
    /\ nparams = 0
    /\ line = NULL
    /\ crypttab_line = 0
    /\ visited = {}
    /\ r = 0
    /\ calls = <<>>
    /\ declared = FALSE

\* a parameter that declares a device: luks.uuid= with a value, or luks.name=
\* with a value of the form <hex digits and dashes>=<name>
IsDeclare(k, v) ==
    /\ v # NULL
    /\ \/ k = <<"l","u","k","s",".","u","u","i","d">>
       \/ /\ k = <<"l","u","k","s",".","n","a","m","e">>
          /\ \E n \in 1..(Len(v) - 2) :
                /\ \A i \in 1..n : v[i] \in HexClass \cup {"-"}
                /\ v[n + 1] = "="
                /\ v[n + 2] \notin WHITESPACE

\* proc_cmdline_parse() hands one more parameter to parse_proc_cmdline_item
ParseItem ==
    /\ pc = "cmdline"
    /\ nparams < MaxParams
    /\ \E it \in CmdlineItems :
       \E g \in {parse_proc_cmdline_item(Globals, it[1], it[2])} :
            /\ key' = it[1]
            /\ value' = it[2]
            /\ arg_enabled' = g.enabled
            /\ arg_read_crypttab' = g.read_crypttab
            /\ arg_whitelist' = g.whitelist
            /\ arg_disks' = g.disks
            /\ arg_default_options' = g.default_options
            /\ arg_default_keyfile' = g.default_keyfile
            /\ declared' = (declared \/ IsDeclare(it[1], it[2]))
    /\ nparams' = nparams + 1
    /\ UNCHANGED <<pc, line, crypttab_line, visited, r, calls>>

\* proc_cmdline_parse() returns; main() goes on to add_crypttab_devices(),
\* which returns at once without luks.crypttab or without the file
EndCmdline ==
    /\ pc = "cmdline"
    /\ key' = NULL
    /\ value' = NULL
    /\ \E exists \in BOOLEAN :
        pc' = IF ~arg_enabled THEN "finish"
              ELSE IF arg_read_crypttab /\ exists THEN "crypttab"
              ELSE "cmdline_devices"
    /\ r' = 0
    /\ UNCHANGED <<arg_enabled, arg_read_crypttab, arg_whitelist, arg_disks,
                   arg_default_options, arg_default_keyfile, nparams, line,
                   crypttab_line, visited, calls, declared>>

\* the identifier a crypttab line names (lines 632-636), or NULL
first_uuid(a, b, c) == IF a # NULL THEN a ELSE IF b # NULL THEN b ELSE c
crypttab_uuid(name, device) ==
    first_uuid(startswith(device, <<"U","U","I","D","=">>),
               path_startswith(device, <<"/","d","e","v","/","d","i","s","k","/","b","y","-","u","u","i","d","/">>),
               startswith(name, <<"l","u","k","s","-">>))

\* whether the line is passed over without being set up (lines 622-630):
\* l is the stripped line, k the number of fields sscanf converted
crypttab_line_ignored(l, k) ==
    \/ l = <<>>
    \/ l[1] = "#"
    \/ k < 2
    \/ k > 4

\* whitelist_skip without the whitelist
whitelist_skip_never(d) == FALSE

\* whether the whitelist keeps the line from being set up (line 640)
whitelist_skip(d) == arg_whitelist /\ d = NULL

\* crypttab_options with the line's own options first
crypttab_options_line_first(d, options) ==
    IF options # NULL THEN options
    ELSE IF d # NULL THEN arg_disks[d].options ELSE NULL

\* the options handed to create_disk for a crypttab line (line 645)
crypttab_options(d, options) ==
    IF d # NULL /\ arg_disks[d].options # NULL THEN arg_disks[d].options ELSE options

\* crypttab_keydev with the key device of the matched entry
crypttab_keydev_of_record(d) == IF d # NULL THEN arg_disks[d].keydev ELSE NULL

\* the key device and the header device handed to create_disk for a crypttab
\* line (line 645): none, whatever the matched entry holds
crypttab_keydev(d) == NULL
crypttab_hdrdev(d) == NULL

\* crypttab_clears_create with the flag left as it is
crypttab_keeps_create(d) == FALSE

\* whether the matched entry is taken off the list of devices still to create (line 649)
crypttab_clears_create(d) == d # NULL

\* one turn of the loop of add_crypttab_devices(): a line is read and handled
ReadLine ==
    /\ pc = "crypttab"
    /\ crypttab_line < MaxLines
    /\ \E ln \in CrypttabLines :
       \E l \in {strstrip(ln)} :
       \E f \in {sscanf_crypttab(l)} :
       \E uuid \in {crypttab_uuid(f.name, f.device)} :
       \E d \in {IF uuid # NULL THEN hashmap_get(arg_disks, uuid) ELSE NULL} :
            /\ line' = ln
            /\ IF crypttab_line_ignored(l, f.k) \/ whitelist_skip(d)
               THEN UNCHANGED <<pc, r, calls, arg_disks>>
               ELSE \E c \in {Call("crypttab", d, crypttab_line + 1, f.name, f.device,
                                   crypttab_keydev(d), crypttab_hdrdev(d), f.keyfile,
                                   crypttab_options(d, f.options))} :
                    /\ calls' = Append(calls, c)
                    /\ IF c.r < 0
                       THEN /\ r' = c.r
                            /\ pc' = "finish"
                            /\ UNCHANGED arg_disks
                       ELSE /\ arg_disks' = IF crypttab_clears_create(d)
                                            THEN [arg_disks EXCEPT ![d].create = FALSE]
                                            ELSE arg_disks
                            /\ UNCHANGED <<pc, r>>
    /\ crypttab_line' = crypttab_line + 1
    /\ UNCHANGED <<arg_enabled, arg_read_crypttab, arg_whitelist,
                   arg_default_options, arg_default_keyfile, key, value, nparams,
                   visited, declared>>

\* fgets() finds the end of the file: add_crypttab_devices() returns 0
EndCrypttab ==
    /\ pc = "crypttab"
    /\ pc' = "cmdline_devices"
    /\ r' = 0
    /\ line' = NULL
    /\ UNCHANGED <<arg_enabled, arg_read_crypttab, arg_whitelist, arg_disks,
                   arg_default_options, arg_default_keyfile, key, value, nparams,
                   crypttab_line, visited, calls, declared>>

\* the arguments add_proc_cmdline_devices() builds for an entry (lines 668-685)
cmdline_name(d) == IF d.name # NULL THEN d.name ELSE <<"l","u","k","s","-">> \o d.uuid
cmdline_device(d) == IF d.datadev # NULL THEN d.datadev ELSE <<"U","U","I","D","=">> \o d.uuid
cmdline_password(d) == IF d.keyfile # NULL THEN d.keyfile ELSE arg_default_keyfile
\* cmdline_options without the process-wide default
cmdline_options_no_default(d) == IF d.options # NULL THEN d.options ELSE <<"t","i","m","e","o","u","t","=","0">>

cmdline_options(d) ==
    IF d.options # NULL THEN d.options
    ELSE IF arg_default_options # NULL THEN arg_default_options
    ELSE <<"t","i","m","e","o","u","t","=","0">>

\* cmdline_wanted with every entry passed over
cmdline_wanted_never(d) == FALSE

\* whether HASHMAP_FOREACH's entry is set up by add_proc_cmdline_devices() (line 665)
cmdline_wanted(d) == d.create

\* one turn of the loop of add_proc_cmdline_devices()
CmdlineDevice ==
    /\ pc = "cmdline_devices"
    /\ \E u \in DOMAIN arg_disks \ visited :
       \E d \in {arg_disks[u]} :
            /\ visited' = visited \cup {u}
            /\ IF ~cmdline_wanted(d)
               THEN UNCHANGED <<pc, r, calls, arg_disks>>
               ELSE \E c \in {Call("cmdline", u, 0, cmdline_name(d), cmdline_device(d),
                                   d.keydev, d.hdrdev, cmdline_password(d),
                                   cmdline_options(d))} :
                    /\ arg_disks' = [arg_disks EXCEPT ![u].name = cmdline_name(d)]
                    /\ calls' = Append(calls, c)
                    /\ IF c.r < 0
                       THEN r' = c.r /\ pc' = "finish"
                       ELSE UNCHANGED <<pc, r>>
    /\ UNCHANGED <<arg_enabled, arg_read_crypttab, arg_whitelist,
                   arg_default_options, arg_default_keyfile, key, value, nparams,
                   line, crypttab_line, declared>>

\* HASHMAP_FOREACH is through: add_proc_cmdline_devices() returns 0
EndCmdlineDevices ==
    /\ pc = "cmdline_devices"
    /\ DOMAIN arg_disks \subseteq visited
    /\ pc' = "finish"
    /\ r' = 0
    /\ UNCHANGED <<arg_enabled, arg_read_crypttab, arg_whitelist, arg_disks,
                   arg_default_options, arg_default_keyfile, key, value, nparams,
                   line, crypttab_line, visited, calls, declared>>

Next == ParseItem \/ EndCmdline \/ ReadLine \/ EndCrypttab \/ CmdlineDevice \/ EndCmdlineDevices

Spec == Init /\ [][Next]_vars

\* main()'s exit status once it is at finish (line 743)
exit_status == IF r < 0 THEN "EXIT_FAILURE" ELSE "EXIT_SUCCESS"

\* the files under arg_dest
Output == UNION {calls[i].emitted : i \in 1..Len(calls)}

\* --------------------------------------------- create_disk taken on its own
DirectNames == {<<"v","o","l">>, <<"l","u","k","s","-">> \o U1}
DirectDevices == {<<"/","d","e","v","/","s","d","b","1">>, <<"/","s","r","v","/","i","m","g">>}
DirectKeydevs == {NULL, <<"/","d","e","v","/","s","d","c","1">>}
DirectHdrdevs == {NULL, <<"/","d","e","v","/","s","d","d","1">>}
DirectPasswords == {NULL, <<"/","k">>}
DirectOptions ==
    {NULL, <<"t","m","p">>, <<"s","w","a","p">>, <<"t","m","p",",","s","w","a","p">>, <<"n","o","a","u","t","o">>, <<"n","o","f","a","i","l",",","h","e","a","d","e","r","=","/","h">>,
     <<"s","w","a","p",",","n","o","a","u","t","o",",","t","m","p",",","h","e","a","d","e","r","=","/","h">>, <<"n","o","a","u","t","o",",","n","o","f","a","i","l",",","a","u","t","o">>}

InitCreateDisk ==
    /\ Init
    /\ calls = <<>>

\* create_disk() called with arguments of any shape
CreateDiskDirect ==
    /\ Len(calls) < MaxDirect
    /\ \E n \in DirectNames, dv \in DirectDevices, kd \in DirectKeydevs,
          hd \in DirectHdrdevs, pw \in DirectPasswords, op \in DirectOptions :
        calls' = Append(calls, Call("direct", NULL, 0, n, dv, kd, hd, pw, op))
    /\ UNCHANGED <<pc, arg_enabled, arg_read_crypttab, arg_whitelist, arg_disks,
                   arg_default_options, arg_default_keyfile, key, value, nparams,
                   line, crypttab_line, visited, r, declared>>

NextCreateDisk == CreateDiskDirect

SpecCreateDisk == InitCreateDisk /\ [][NextCreateDisk]_vars

\* ------------------------------------------------- what the claims speak of
\* the comma-separated words of an option string
OptionWords(opts) == IF opts = NULL THEN <<>> ELSE Words(opts, {","})
HasWord(opts, w) == \E ws \in {OptionWords(opts)} : \E j \in 1..Len(ws) : ws[j] = w
\* yes is given, and no is not given after it
LastIs(opts, yes, no) ==
    \E ws \in {OptionWords(opts)} :
        \E j \in 1..Len(ws) :
            /\ ws[j] = yes
            /\ \A k \in (j + 1)..Len(ws) : ws[k] # no
HasHeaderOption(opts) ==
    \E ws \in {OptionWords(opts)} :
        \E j \in 1..Len(ws) : startswith(ws[j], <<"h","e","a","d","e","r","=">>) # NULL

\* Policy A, B, C of a create_disk call
PolicyA(c) == HasWord(c.options, <<"t","m","p">>) /\ HasWord(c.options, <<"s","w","a","p">>)
PolicyB(c) == c.keydev # NULL /\ c.password = NULL
PolicyC(c) == c.hdrdev # NULL /\ ~HasHeaderOption(c.options)
PolicyRejected(c) == PolicyA(c) \/ PolicyB(c) \/ PolicyC(c)

\* the step made a create_disk call: the call
MadeCall == Len(calls') = Len(calls) + 1
LastCall == calls'[Len(calls')]

HasDropIn(c) ==
    \E a \in c.emitted : a.kind = "dropin" /\ a.what = <<"J","o","b","T","i","m","e","o","u","t","S","e","c","=","0">>
HasService(c) == \E a \in c.emitted : a.kind = "service"

\* every record still flagged has been handed to create_disk by the leftover pass
FlaggedAllHanded ==
    \A u \in DOMAIN arg_disks :
        arg_disks[u].create =>
            \E i \in 1..Len(calls) : calls[i].src = "cmdline" /\ calls[i].d = u

\* C1: once a luks.uuid= or luks.name= parameter has declared a device, every
\* crypttab line handed to create_disk names an identifier the registry holds:
\* a line without a matching record is passed over and writes nothing.
C1_WhitelistInvariant ==
    declared =>
        \A i \in 1..Len(calls) :
            calls[i].src = "crypttab" =>
                crypttab_uuid(calls[i].name, calls[i].device) \in DOMAIN arg_disks

\* a device was declared, the first crypttab line named no record, and it was passed over
C1_Witness ==
    /\ declared
    /\ pc = "crypttab"
    /\ crypttab_line = 1
    /\ line = <<"v","o","l"," ","/","d","e","v","/","s","d","b","1"," ","/","k","\n">>
    /\ calls = <<>>

\* C2: a create_disk call rejected under Policy A, B or C returns without having
\* written any file, and no unit carries both the mke2fs and the mkswap action.
C2_RejectedWritesNothing ==
    /\ \A i \in 1..Len(calls) : PolicyRejected(calls[i]) => calls[i].emitted = {}
    /\ \A a \in Output :
          ~(<<"Service", "ExecStartPost=mke2fs">> \in a.tags
            /\ <<"Service", "ExecStartPost=mkswap">> \in a.tags)

\* a call with a key device and no password (Policy B alone) has been made
C2_Witness ==
    \E i \in 1..Len(calls) :
        /\ PolicyB(calls[i]) /\ ~PolicyA(calls[i]) /\ ~PolicyC(calls[i])
        /\ calls[i].r < 0

\* C3: a device rejected for 'tmp,swap' does not stop the run: the pass it was
\* rejected in goes on with r = 0 and the other records are left as they were,
\* and at the end every record still flagged has been handed to create_disk.
C3_TmpSwapDoesNotStopTheRun ==
    /\ [][(MadeCall /\ PolicyA(LastCall)) =>
            /\ pc' = pc
            /\ r' = 0
            /\ LastCall.emitted = {}
            /\ \A u \in DOMAIN arg_disks :
                  u # LastCall.d => arg_disks'[u] = arg_disks[u]]_vars
    /\ []((pc = "finish" /\ arg_enabled /\ \E i \in 1..Len(calls) : PolicyA(calls[i]))
            => FlaggedAllHanded)

\* the leftover pass rejected one record for tmp,swap and then set up another
C3_Witness ==
    /\ pc = "finish"
    /\ \E i \in 1..Len(calls) : \E j \in (i + 1)..Len(calls) :
          /\ calls[i].src = "cmdline" /\ PolicyA(calls[i]) /\ calls[i].emitted = {}
          /\ calls[j].src = "cmdline" /\ HasService(calls[j])

\* C4: a run whose only failures are devices rejected under Policies A-C ends
\* with EXIT_SUCCESS.
C4_RejectionsExitSuccess ==
    (pc = "finish" /\ \E i \in 1..Len(calls) : PolicyRejected(calls[i]))
        => exit_status = "EXIT_SUCCESS"

\* the run has ended after a header device without header= was rejected (Policy C)
C4_Witness ==
    /\ pc = "finish"
    /\ \E i \in 1..Len(calls) : PolicyC(calls[i]) /\ ~PolicyA(calls[i]) /\ calls[i].emitted = {}

\* C5: the leftover pass hands every record still flagged to create_disk with
\* name = the record's name or else "luks-" + uuid, device = its datadev or else
\* "UUID=" + uuid, password = its keyfile or else the default keyfile, and
\* options = its options, or else the default options, or else "timeout=0";
\* when the run ends every flagged record has been handed over.
C5_LeftoverArguments ==
    /\ [][\A u \in DOMAIN arg_disks :
            (pc = "cmdline_devices" /\ u \notin visited /\ u \in visited'
             /\ arg_disks[u].create) =>
                /\ MadeCall
                /\ LastCall.src = "cmdline"
                /\ LastCall.name = (IF arg_disks[u].name # NULL THEN arg_disks[u].name
                                    ELSE <<"l","u","k","s","-">> \o u)
                /\ LastCall.device = (IF arg_disks[u].datadev # NULL
                                      THEN arg_disks[u].datadev ELSE <<"U","U","I","D","=">> \o u)
                /\ LastCall.password = (IF arg_disks[u].keyfile # NULL
                                        THEN arg_disks[u].keyfile
                                        ELSE arg_default_keyfile)
                /\ LastCall.options = (IF arg_disks[u].options # NULL
                                       THEN arg_disks[u].options
                                       ELSE IF arg_default_options # NULL
                                       THEN arg_default_options
                                       ELSE <<"t","i","m","e","o","u","t","=","0">>)]_vars
    /\ []((pc = "finish" /\ arg_enabled /\ r = 0) => FlaggedAllHanded)

\* Scenario B: luks.uuid=<U1> alone gave luks-<U1>, UUID=<U1>, no password and
\* timeout=0, and a record with a name and a data device gave those
C5_Witness ==
    /\ pc = "finish"
    /\ \E i \in 1..Len(calls) :
          /\ calls[i].src = "cmdline"
          /\ calls[i].name = <<"l","u","k","s","-">> \o U1
          /\ calls[i].device = <<"U","U","I","D","=">> \o U1
          /\ calls[i].password = NULL
          /\ calls[i].options = <<"t","i","m","e","o","u","t","=","0">>
          /\ HasService(calls[i])
    /\ \E i \in 1..Len(calls) :
          /\ calls[i].src = "cmdline"
          /\ calls[i].name = <<"d","a","t","a">>
          /\ calls[i].device = <<"/","d","e","v","/","s","d","e","1">>

\* C6: a record whose crypttab line was set up is not set up again by the
\* leftover pass: the line clears the record's create flag, and once the
\* command line has been read no create flag goes from false to true.
C6_NoDuplicateSynthesis ==
    /\ [](\A i \in 1..Len(calls) : \A j \in 1..Len(calls) :
            (calls[i].src = "crypttab" /\ calls[j].src = "cmdline")
                => crypttab_uuid(calls[i].name, calls[i].device) # calls[j].d)
    /\ [][(pc = "crypttab" /\ MadeCall /\ LastCall.r >= 0
           /\ crypttab_uuid(LastCall.name, LastCall.device) \in DOMAIN arg_disks)
            => ~arg_disks'[crypttab_uuid(LastCall.name, LastCall.device)].create]_vars
    /\ [][pc # "cmdline" =>
            \A u \in DOMAIN arg_disks : arg_disks'[u].create => arg_disks[u].create]_vars

\* U1 was declared and set up from its crypttab line, the leftover pass has
\* passed over it and has set up another record
C6_Witness ==
    /\ pc = "finish"
    /\ U1 \in visited
    /\ ~arg_disks[U1].create
    /\ \E i \in 1..Len(calls) :
          /\ calls[i].src = "crypttab"
          /\ crypttab_uuid(calls[i].name, calls[i].device) = U1
          /\ HasService(calls[i])
    /\ \E j \in 1..Len(calls) : calls[j].src = "cmdline" /\ calls[j].d # U1

\* the part of a value in front of its first '=', or NULL
IdentifierPart(v) ==
    IF v # NULL /\ \E n \in 1..Len(v) : v[n] = "="
    THEN SubSeq(v, 1, (CHOOSE n \in 1..Len(v) :
                          v[n] = "=" /\ \A m \in 1..(n - 1) : v[m] # "=") - 1)
    ELSE NULL
BadUuidItem(k, v) ==
    /\ k \in {<<"l","u","k","s",".","k","e","y">>, <<"l","u","k","s",".","h","d","r">>, <<"l","u","k","s",".","d","a","t","a">>}
    /\ IdentifierPart(v) # NULL
    /\ ~id128_is_valid(IdentifierPart(v))

\* C7: a luks.key=, luks.hdr= or luks.data= parameter whose identifier is no
\* valid UUID leaves the registry as it was: no record is made, none changes.
C7_BadUuidLeavesRegistry ==
    [][(nparams' = nparams + 1 /\ BadUuidItem(key', value')) => arg_disks' = arg_disks]_vars

\* luks.key=xyz=/k has been handed over while the registry held a record
C7_Witness ==
    /\ key = <<"l","u","k","s",".","k","e","y">>
    /\ value = <<"x","y","z","=","/","k">>
    /\ U1 \in DOMAIN arg_disks
    /\ arg_disks[U1].create

\* the fields of a crypttab line
LineFields(ln) == Words(strstrip(ln), WHITESPACE)
LineIsEntry(ln) == strstrip(ln) # <<>> /\ strstrip(ln)[1] # "#"

\* C8: a crypttab line that is neither blank nor a comment and has fewer than 2
\* or more than 4 fields is passed over: no create_disk call, and the loop goes on.
C8_FieldCountOutside2To4Rejected ==
    [][(crypttab_line' = crypttab_line + 1 /\ LineIsEntry(line')
        /\ Len(LineFields(line')) \notin 2..4)
            => (calls' = calls /\ pc' = pc)]_vars

\* C9: a crypttab line is handed to create_disk with the options of the record
\* it matches when that record has options, and with its own options field
\* (none when the line has three fields or fewer) otherwise; the default
\* options are not used.
C9_TableOptionsPrecedence ==
    [][(pc = "crypttab" /\ MadeCall) =>
         LastCall.options =
            IF /\ crypttab_uuid(LastCall.name, LastCall.device) \in DOMAIN arg_disks
               /\ arg_disks[crypttab_uuid(LastCall.name, LastCall.device)].options # NULL
            THEN arg_disks[crypttab_uuid(LastCall.name, LastCall.device)].options
            ELSE IF Len(LineFields(line')) >= 4 THEN LineFields(line')[4] ELSE NULL]_vars

\* the line "vol UUID=<U1> - tmp,swap" was set up with the record's header=/h,noauto
C9_Witness ==
    /\ pc = "crypttab"
    /\ line = <<"v","o","l"," ","U","U","I","D","=">> \o U1 \o <<" ","-"," ","t","m","p",",","s","w","a","p","\n">>
    /\ calls # <<>>
    /\ calls[Len(calls)].crypttab_line = crypttab_line
    /\ calls[Len(calls)].options = <<"h","e","a","d","e","r","=","/","h",",","n","o","a","u","t","o">>
    /\ HasService(calls[Len(calls)])

\* C10 as claimed: the drop-in is written unless noauto is set and nofail is not
C10_DropInUnlessNoautoAndNotNofail ==
    \A i \in 1..Len(calls) :
        HasService(calls[i]) =>
            (HasDropIn(calls[i]) <=>
                ~(LastIs(calls[i].options, <<"n","o","a","u","t","o">>, <<"a","u","t","o">>)
                  /\ ~LastIs(calls[i].options, <<"n","o","f","a","i","l">>, <<"f","a","i","l">>)))

\* C10: the JobTimeoutSec=0 drop-in of the mapped device is written exactly
\* when neither noauto nor nofail is set.
C10_DropInWhenNeitherNoautoNorNofail ==
    \A i \in 1..Len(calls) :
        HasService(calls[i]) =>
            (HasDropIn(calls[i]) <=>
                (~LastIs(calls[i].options, <<"n","o","a","u","t","o">>, <<"a","u","t","o">>)
                 /\ ~LastIs(calls[i].options, <<"n","o","f","a","i","l">>, <<"f","a","i","l">>)))

\* a device with nofail and without noauto was set up without the drop-in
C10_Witness ==
    \E i \in 1..Len(calls) :
        /\ HasService(calls[i])
        /\ HasWord(calls[i].options, <<"n","o","f","a","i","l">>)
        /\ ~HasWord(calls[i].options, <<"n","o","a","u","t","o">>)
        /\ ~HasDropIn(calls[i])

\* a step of the crypttab loop that read a malformed line or had its device rejected
TableStepRejected ==
    /\ pc = "crypttab"
    /\ crypttab_line' = crypttab_line + 1
    /\ \/ MadeCall /\ PolicyRejected(LastCall)
       \/ \E l \in {strstrip(line')} :
             l # <<>> /\ l[1] # "#" /\ Len(Words(l, WHITESPACE)) \notin 2..4

\* a step of the leftover loop that had its device rejected
LeftoverStepRejected ==
    /\ pc = "cmdline_devices"
    /\ MadeCall
    /\ PolicyRejected(LastCall)

\* C11 as claimed: a malformed crypttab line or a rejected device ends the
\* crypttab loop, so that no later line is read, while a rejection in the
\* leftover pass leaves the leftover loop running.
C11_TablePassAbortsLeftoverPassSkips ==
    [][/\ TableStepRejected => pc' # "crypttab"
       /\ LeftoverStepRejected => pc' = "cmdline_devices"]_vars

\* C11: there is no asymmetry. A malformed crypttab line and a device rejected
\* under Policy A or C leave the crypttab loop running with r unchanged, just as
\* a rejection leaves the leftover loop running; a rejected call writes nothing,
\* and at the end every record still flagged has been handed to create_disk.
C11_RejectionSkipsOneDeviceInBothPasses ==
    /\ [][/\ TableStepRejected => (pc' = "crypttab" /\ r' = r)
          /\ LeftoverStepRejected => (pc' = "cmdline_devices" /\ r' = r)
          /\ (MadeCall /\ PolicyRejected(LastCall)) =>
                (LastCall.emitted = {} /\ LastCall.r = 0)]_vars
    /\ []((pc = "finish" /\ arg_enabled) => FlaggedAllHanded)

\* the crypttab loop had its first line rejected for tmp,swap and set up its second
C11_Witness ==
    /\ pc = "crypttab"
    /\ Len(calls) = 2
    /\ calls[1].src = "crypttab" /\ calls[1].crypttab_line = 1
    /\ PolicyA(calls[1]) /\ calls[1].emitted = {}
    /\ calls[2].src = "crypttab" /\ calls[2].crypttab_line = 2
    /\ HasService(calls[2])

\* the i-th of the fields f, or NULL when there are fewer
LineField(f, i) == IF Len(f) >= i THEN f[i] ELSE NULL
HasMount(c) == \E a \in c.emitted : a.kind = "mount"

\* C12: a crypttab line is handed to create_disk with its own name, device and
\* key file, without key device and without header device; what is written for
\* it is what create_disk writes for these arguments and the resolved options,
\* whatever else the matched record holds. No mount unit is written for a
\* crypttab line: every mount unit comes from the leftover pass.
C12_TableLineUsesOnlyItsOwnFields ==
    /\ [][(MadeCall /\ LastCall.src = "crypttab") =>
            \E c \in {LastCall} : \E f \in {LineFields(line')} :
                /\ c.name = LineField(f, 1)
                /\ c.device = LineField(f, 2)
                /\ c.password = LineField(f, 3)
                /\ c.keydev = NULL
                /\ c.hdrdev = NULL
                /\ c.emitted =
                      create_disk(LineField(f, 1), LineField(f, 2), NULL, NULL,
                                  LineField(f, 3), c.options).emitted
                /\ ~HasMount(c)]_vars
    /\ [](\A i \in 1..Len(calls) : HasMount(calls[i]) => calls[i].src = "cmdline")

\* a crypttab line was set up, without any mount unit and with its own key
\* file, while the record it matches holds a key file and a key device
C12_Witness ==
    /\ calls # <<>>
    /\ calls[Len(calls)].src = "crypttab"
    /\ HasService(calls[Len(calls)])
    /\ ~HasMount(calls[Len(calls)])
    /\ calls[Len(calls)].d # NULL
    /\ arg_disks[calls[Len(calls)].d].keydev # NULL
    /\ arg_disks[calls[Len(calls)].d].keyfile # NULL
    /\ arg_disks[calls[Len(calls)].d].keyfile # calls[Len(calls)].password

\* C13: after the kernel command line is parsed, a record loses its create flag
\* only in the step in which a crypttab line that names it is handed to
\* create_disk; when an enabled run ends with success, every record that still
\* has the flag has been handed to create_disk by the leftover pass; and every
\* create_disk call either was rejected under Policy A, B or C or wrote the
\* systemd-cryptsetup@ service unit.
C13_MustCreateServed ==
    /\ [][pc # "cmdline" =>
            \A u \in DOMAIN arg_disks :
                (arg_disks[u].create /\ ~arg_disks'[u].create) =>
                    /\ MadeCall
                    /\ LastCall.src = "crypttab"
                    /\ LastCall.d = u]_vars
    /\ []((pc = "finish" /\ arg_enabled /\ exit_status = "EXIT_SUCCESS") =>
            \A u \in DOMAIN arg_disks :
                arg_disks[u].create =>
                    \E i \in 1..Len(calls) :
                        /\ calls[i].src = "cmdline"
                        /\ calls[i].d = u)
    /\ [][MadeCall => (PolicyRejected(LastCall) <=> ~HasService(LastCall))]_vars

\* an enabled run has ended with success after one device declared by luks.uuid=
\* was set up from the crypttab line that names it and another by the leftover pass
C13_Witness ==
    /\ pc = "finish"
    /\ arg_enabled
    /\ exit_status = "EXIT_SUCCESS"
    /\ \E i \in 1..Len(calls) : \E j \in 1..Len(calls) :
          /\ calls[i].src = "crypttab" /\ HasService(calls[i])
          /\ calls[i].d # NULL
          /\ ~arg_disks[calls[i].d].create
          /\ arg_disks[calls[i].d].name = NULL
          /\ arg_disks[calls[i].d].options = NULL
          /\ arg_disks[calls[i].d].keyfile = NULL
          /\ arg_disks[calls[i].d].hdrdev = NULL
          /\ arg_disks[calls[i].d].datadev = NULL
          /\ calls[j].src = "cmdline" /\ HasService(calls[j])
          /\ calls[j].d # calls[i].d
          /\ arg_disks[calls[j].d].create
====
